---- MODULE Spec2Model ----
(***************************************************************************)
(* Valentine Mini Wordle (src/app.py): a Streamlit script.  Every user     *)
(* event re-executes the script top to bottom against the session state;   *)
(* st.rerun() restarts it at once with no widget event, st.stop() ends the *)
(* pass.  One action of this module is one user event together with every  *)
(* script pass it causes.  Python indices are kept 0-based (round_idx);    *)
(* the lists are TLA+ sequences, so round r is element r + 1.              *)
(***************************************************************************)
EXTENDS Integers, Sequences, FiniteSets, TLC

VARIABLES
    round_idx,      \* st.session_state.round_idx: 0..N-1, then N = final question
    guesses,        \* per round, the list of stored guesses
    statuses,       \* per round, the list of status rows
    round_solved,   \* per round, the solved flag
    show_note,      \* st.session_state.show_note
    final_choice,   \* "None" or "YES"
    win_pulse,      \* one-shot animation flag
    input_key,      \* counter naming the text input widget
    screen,         \* widgets the last pass left in the browser
    error,          \* st.error message of the last pass ("" when none)
    strict,         \* STRICT_VALIDATION, fixed for a run of the app
    event,          \* the user event that caused the latest pass: [click, text]
    scored          \* scorer harness: the guess, the answer and the row computed

vars == <<round_idx, guesses, statuses, round_solved, show_note, final_choice,
          win_pulse, input_key, screen, error, strict, event, scored>>

-----------------------------------------------------------------------------
(* Configuration *)

ANSWERS == << <<"F","L","I","R","T">>, <<"S","W","E","E","T">>,
              <<"A","M","O","U","R">>, <<"H","E","A","R","T">> >>

N == Len(ANSWERS)

VALID_GUESSES ==
    { ANSWERS[r] : r \in 1..N } \cup
    { <<"L","A","T","E","R">>, <<"T","E","A","R","S">>, <<"S","M","I","L","E">>,
      <<"R","O","S","E","S">>, <<"A","D","O","R","E">>, <<"L","O","V","E","R">>,
      <<"A","N","G","E","L">>, <<"K","I","S","S","E","S">> }

\* (the ellipsis of the third note is written as three dots)
INTER_ROUND_NOTES ==
    << "Nice. Keep going.", "You're on pace.", "Alright... last round.", "Look up." >>

WordLen == 5

MaxGuesses == 6

\* Cap on input_key, which the app increments without bound.
MaxKey == 16

-----------------------------------------------------------------------------
(* Characters and str methods *)

LowerCase == <<"a","b","c","d","e","f","g","h","i","j","k","l","m",
               "n","o","p","q","r","s","t","u","v","w","x","y","z">>

UpperCase == <<"A","B","C","D","E","F","G","H","I","J","K","L","M",
               "N","O","P","Q","R","S","T","U","V","W","X","Y","Z">>

AZ == { UpperCase[i] : i \in 1..Len(UpperCase) }

WhiteSpace == {" ", "\t", "\n"}

upper_char(c) ==
    IF \E i \in 1..Len(LowerCase) : LowerCase[i] = c
    THEN UpperCase[CHOOSE i \in 1..Len(LowerCase) : LowerCase[i] = c]
    ELSE c

\* str.upper()
upper(s) == [i \in 1..Len(s) |-> upper_char(s[i])]

\* str.strip(): drop leading and trailing whitespace
strip(s) ==
    LET keep == { i \in 1..Len(s) : s[i] \notin WhiteSpace }
    IN  IF keep = {} THEN <<>>
        ELSE LET lo == CHOOSE i \in keep : \A j \in keep : i <= j
                 hi == CHOOSE i \in keep : \A j \in keep : j <= i
             IN  SubSeq(s, lo, hi)

-----------------------------------------------------------------------------
(* Scorer *)

Get(d, k) == IF k \in DOMAIN d THEN d[k] ELSE 0

Put(d, k, v) == [x \in DOMAIN d \cup {k} |-> IF x = k THEN v ELSE d[x]]

Min(a, b) == IF a < b THEN a ELSE b

\* Mutant: tallies every answer letter, matched or not.
RECURSIVE first_pass_all(_, _, _, _)
first_pass_all(guess, answer, i, acc) ==
    IF i > Min(Len(guess), Len(answer)) THEN acc
    ELSE first_pass_all(guess, answer, i + 1,
            [(IF guess[i] = answer[i]
              THEN [acc EXCEPT !.status[i] = "correct"]
              ELSE acc)
             EXCEPT !.answer_counts = Put(@, answer[i], Get(@, answer[i]) + 1)])

\* First pass: mark correct, tally the answer letters that were not matched.
RECURSIVE first_pass(_, _, _, _)
first_pass(guess, answer, i, acc) ==
    IF i > Min(Len(guess), Len(answer)) THEN acc
    ELSE first_pass(guess, answer, i + 1,
            IF guess[i] = answer[i]
            THEN [acc EXCEPT !.status[i] = "correct"]
            ELSE [acc EXCEPT !.answer_counts =
                      Put(@, answer[i], Get(@, answer[i]) + 1)])

\* Mutant: tests that the letter was tallied, not that any of it is left.
PresentTest_key(answer_counts, g) == g \in DOMAIN answer_counts

PresentTest(answer_counts, g) == Get(answer_counts, g) > 0

\* Second pass: mark present, left to right, while the tally lasts.
RECURSIVE second_pass(_, _, _)
second_pass(guess, i, acc) ==
    IF i > Len(guess) THEN acc
    ELSE second_pass(guess, i + 1,
            IF acc.status[i] = "correct" THEN acc
            ELSE IF PresentTest(acc.answer_counts, guess[i])
                 THEN [acc EXCEPT !.status[i] = "present",
                                  !.answer_counts[guess[i]] = @ - 1]
                 ELSE acc)

\* Mutant: the arguments taken in the other order.
score_guess_swapped(guess, answer) ==
    LET g == upper(answer)
        a == upper(guess)
        start == [status |-> [i \in 1..WordLen |-> "absent"],
                  answer_counts |-> <<>>]
    IN  second_pass(g, 1, first_pass(g, a, 1, start)).status

score_guess(guess, answer) ==
    LET g == upper(guess)
        a == upper(answer)
        start == [status |-> [i \in 1..WordLen |-> "absent"],
                  answer_counts |-> <<>>]
    IN  second_pass(g, 1, first_pass(g, a, 1, start)).status

-----------------------------------------------------------------------------
(* Validator *)

\* Mutant: re.match in place of re.fullmatch (a prefix match).
FullMatch_prefix(s) ==
    Len(s) >= WordLen /\ \A i \in 1..WordLen : s[i] \in AZ

\* Mutant: the character class in the wrong case.
FullMatch_lower(s) ==
    Len(s) = WordLen /\ \A i \in 1..Len(s) : s[i] \notin AZ

\* re.fullmatch(r"[A-Z]{5}", s)
FullMatch(s) == Len(s) = WordLen /\ \A i \in 1..Len(s) : s[i] \in AZ

\* Mutant: checks the length only.
is_valid_guess_len(s0) ==
    LET s == upper(strip(s0))
    IN  IF Len(s) # WordLen THEN [ok |-> FALSE, msg |-> "Enter exactly 5 letters."]
        ELSE [ok |-> TRUE, msg |-> ""]

is_valid_guess(s0) ==
    LET s == upper(strip(s0))
    IN  IF ~FullMatch(s) THEN [ok |-> FALSE, msg |-> "Enter exactly 5 letters."]
        ELSE IF strict /\ s \notin VALID_GUESSES
             THEN [ok |-> FALSE, msg |-> "Not in the word list."]
             ELSE [ok |-> TRUE, msg |-> ""]

-----------------------------------------------------------------------------
(* Session state and the script *)

Session ==
    [round_idx |-> round_idx, guesses |-> guesses, statuses |-> statuses,
     round_solved |-> round_solved, show_note |-> show_note,
     final_choice |-> final_choice, win_pulse |-> win_pulse,
     input_key |-> input_key, screen |-> screen, error |-> error]

\* init_state() on a session with no keys
init_state ==
    [round_idx |-> 0,
     guesses |-> [r \in 1..N |-> <<>>],
     statuses |-> [r \in 1..N |-> <<>>],
     round_solved |-> [r \in 1..N |-> FALSE],
     show_note |-> FALSE,
     final_choice |-> "None",
     win_pulse |-> FALSE,
     input_key |-> 0,
     screen |-> "none",
     error |-> ""]

\* Mutant: leaves the final_choice key in place.
reset_all_keep(s) == [init_state EXCEPT !.final_choice = s.final_choice]

\* reset_all() deletes every key; the pass that follows runs init_state() on
\* the emptied session.
reset_all(s) == init_state

all_solved(s) == \A r \in 1..N : s.round_solved[r]

\* Mutant: no short-circuit.
short_circuit_off(s) == s

\* "If all rounds solved, go to final"
short_circuit(s) ==
    IF all_solved(s) /\ s.round_idx < N THEN [s EXCEPT !.round_idx = N] ELSE s

\* render_grid(): draws the grid, then clears the pulse
render_grid(s) == [s EXCEPT !.win_pulse = FALSE]

is_solved(s) == s.round_solved[s.round_idx + 1]

\* Mutant: off by one.
is_failed_gt(s) == Len(s.guesses[s.round_idx + 1]) > MaxGuesses

is_failed(s) == Len(s.guesses[s.round_idx + 1]) >= MaxGuesses

\* Mutant: the button toggles the choice.
yes_handler_toggle(s) ==
    [s EXCEPT !.final_choice = IF @ = "YES" THEN "None" ELSE "YES"]

\* "YES" button body
yes_handler(s) == [s EXCEPT !.final_choice = "YES"]

\* Mutant: skips a round.
next_round_handler_skip(s) ==
    [s EXCEPT !.show_note = FALSE, !.round_idx = @ + 2, !.input_key = @ + 1]

\* "Next round" button body (before st.rerun())
next_round_handler(s) ==
    [s EXCEPT !.show_note = FALSE, !.round_idx = @ + 1, !.input_key = @ + 1]

\* Mutant: clears every round, not only the current one.
try_again_handler_all(s) ==
    [s EXCEPT !.guesses = [r \in 1..N |-> <<>>],
              !.statuses = [r \in 1..N |-> <<>>],
              !.round_solved = [r \in 1..N |-> FALSE],
              !.input_key = @ + 1]

\* Mutant: also restarts at the first round.
try_again_handler_restart(s) ==
    [s EXCEPT !.guesses[s.round_idx + 1] = <<>>,
              !.statuses[s.round_idx + 1] = <<>>,
              !.round_solved[s.round_idx + 1] = FALSE,
              !.round_idx = 0,
              !.input_key = @ + 1]

\* Mutant: leaves the status rows in place.
try_again_handler_rows(s) ==
    [s EXCEPT !.guesses[s.round_idx + 1] = <<>>,
              !.round_solved[s.round_idx + 1] = FALSE,
              !.input_key = @ + 1]

\* "Try again" button body (before st.rerun())
try_again_handler(s) ==
    [s EXCEPT !.guesses[s.round_idx + 1] = <<>>,
              !.statuses[s.round_idx + 1] = <<>>,
              !.round_solved[s.round_idx + 1] = FALSE,
              !.input_key = @ + 1]

\* Mutant: stores into the first round whatever the current round is.
store_guess_first(s, g) ==
    [s EXCEPT !.guesses[1] = Append(@, g),
              !.statuses[1] =
                  Append(@, score_guess(g, ANSWERS[s.round_idx + 1]))]

\* "Score and store"
store_guess(s, g) ==
    [s EXCEPT !.guesses[s.round_idx + 1] = Append(@, g),
              !.statuses[s.round_idx + 1] =
                  Append(@, score_guess(g, ANSWERS[s.round_idx + 1]))]

\* "Win?" test
is_win(s, g) == g = ANSWERS[s.round_idx + 1]

\* "Win?" branch body (before st.rerun())
win_handler(s) ==
    [s EXCEPT !.round_solved[s.round_idx + 1] = TRUE,
              !.win_pulse = TRUE,
              !.input_key = @ + 1]

\* "if not ok": st.error(msg); st.stop()
invalid_handler(s, msg) == [s EXCEPT !.error = msg, !.screen = "input"]

\* "Otherwise continue": the pass ends with the widgets already drawn
continue_handler(s) == [s EXCEPT !.input_key = @ + 1, !.screen = "input"]

\* One execution of the script.  click names the button whose press caused
\* the pass ("none": no button), text is the value of the text input.  A
\* button reports its press only if the pass reaches the line that draws it.
RECURSIVE script(_, _, _)
script(s0, click, text) ==
    LET s == [s0 EXCEPT !.error = ""]
    IN
    IF click = "reset" THEN script(reset_all(s), "none", <<>>)
    ELSE
    LET a == short_circuit(s)
    IN
    IF a.round_idx >= N
    THEN [(IF click = "yes" THEN yes_handler(a) ELSE a) EXCEPT !.screen = "final"]
    ELSE
    LET b == render_grid(a)
    IN
    IF is_solved(b)
    THEN IF click = "next"
         THEN script(next_round_handler(b), "none", <<>>)
         ELSE [b EXCEPT !.screen = "solved"]
    ELSE IF is_failed(b)
    THEN IF click = "retry"
         THEN script(try_again_handler(b), "none", <<>>)
         ELSE [b EXCEPT !.screen = "failed"]
    ELSE IF click = "submit"
    THEN LET g == upper(strip(text))
             v == is_valid_guess(g)
         IN  IF ~v.ok
             THEN invalid_handler(b, v.msg)
             ELSE LET c == store_guess(b, g)
                  IN  IF is_win(c, g)
                      THEN script(win_handler(c), "none", <<>>)
                      ELSE continue_handler(c)
    ELSE [b EXCEPT !.screen = "input"]

\* The note the solved-round branch of the last pass drew ("" when none).
note_shown ==
    IF screen = "solved" THEN INTER_ROUND_NOTES[round_idx + 1] ELSE ""

-----------------------------------------------------------------------------
(* Inputs *)

\* A word that is well formed, is no answer and is not in VALID_GUESSES.
OtherWord == <<"t","r","e","a","t">>

\* A word of VALID_GUESSES that is no answer.
ListedWord == <<"T","E","A","R","S">>

lower(s) ==
    [i \in 1..Len(s) |->
        IF \E k \in 1..Len(UpperCase) : UpperCase[k] = s[i]
        THEN LowerCase[CHOOSE k \in 1..Len(UpperCase) : UpperCase[k] = s[i]]
        ELSE s[i]]

\* What the player may have typed in round r (at most max_chars = 5
\* characters): the answer, one well-formed wrong word that the validator in
\* force accepts, one it refuses in strict mode, and malformed texts.
Typed(r) ==
    { ANSWERS[r + 1], lower(ANSWERS[r + 1]), OtherWord,
      <<>>, <<"A","B">>, <<"A","B","3","D","E">>, <<" ","h","i","\n">> }
    \cup (IF strict THEN {ListedWord} ELSE {})

-----------------------------------------------------------------------------
(* Actions *)

Become(s, click, text) ==
    /\ event' = [click |-> click, text |-> text]
    /\ round_idx' = s.round_idx
    /\ guesses' = s.guesses
    /\ statuses' = s.statuses
    /\ round_solved' = s.round_solved
    /\ show_note' = s.show_note
    /\ final_choice' = s.final_choice
    /\ win_pulse' = s.win_pulse
    /\ input_key' = s.input_key
    /\ screen' = s.screen
    /\ error' = s.error
    /\ UNCHANGED <<strict, scored>>

NoEvent == [click |-> "none", text |-> <<>>]

\* First pass of a session: nothing is on the screen yet.
Load ==
    /\ screen = "none"
    /\ Become(script(Session, "none", <<>>), "load", <<>>)

ClickReset ==
    /\ screen # "none"
    /\ Become(script(Session, "reset", <<>>), "reset", <<>>)

ClickYes ==
    /\ screen = "final"
    /\ Become(script(Session, "yes", <<>>), "yes", <<>>)

\* The "No" control is browser-side only: no event reaches the script.
ClickNo ==
    /\ screen = "final"
    /\ event' = [click |-> "no", text |-> <<>>]
    /\ UNCHANGED <<round_idx, guesses, statuses, round_solved, show_note,
                   final_choice, win_pulse, input_key, screen, error, strict,
                   scored>>

ClickNextRound ==
    /\ screen = "solved"
    /\ input_key < MaxKey
    /\ Become(script(Session, "next", <<>>), "next", <<>>)

ClickTryAgain ==
    /\ screen = "failed"
    /\ input_key < MaxKey
    /\ Become(script(Session, "retry", <<>>), "retry", <<>>)

ClickSubmit ==
    /\ screen = "input"
    /\ input_key < MaxKey
    /\ \E text \in Typed(round_idx) :
           Become(script(Session, "submit", text), "submit", text)

\* Committing the text (Enter) re-executes the script with no button pressed.
EnterText ==
    /\ screen = "input"
    /\ Become(script(Session, "none", <<>>), "enter", <<>>)

NoScore == [guess |-> <<>>, answer |-> <<>>, row |-> <<>>]

Init ==
    /\ strict \in BOOLEAN
    /\ scored = NoScore
    /\ event = NoEvent
    /\ round_idx = init_state.round_idx
    /\ guesses = init_state.guesses
    /\ statuses = init_state.statuses
    /\ round_solved = init_state.round_solved
    /\ show_note = init_state.show_note
    /\ final_choice = init_state.final_choice
    /\ win_pulse = init_state.win_pulse
    /\ input_key = init_state.input_key
    /\ screen = init_state.screen
    /\ error = init_state.error

Next ==
    \/ Load
    \/ ClickReset
    \/ ClickYes
    \/ ClickNo
    \/ ClickNextRound
    \/ ClickTryAgain
    \/ ClickSubmit
    \/ EnterText

Spec == Init /\ [][Next]_vars

-----------------------------------------------------------------------------
(* A session whose stored state did not come from play: any round index,   *)
(* any combination of solved flags, nothing on the screen yet.             *)

InitStored ==
    /\ strict \in BOOLEAN
    /\ scored = NoScore
    /\ event = NoEvent
    /\ round_idx \in 0..N
    /\ round_solved \in [1..N -> BOOLEAN]
    /\ guesses = init_state.guesses
    /\ statuses = init_state.statuses
    /\ show_note = init_state.show_note
    /\ final_choice = init_state.final_choice
    /\ win_pulse = init_state.win_pulse
    /\ input_key = init_state.input_key
    /\ screen = init_state.screen
    /\ error = init_state.error

SpecStored == InitStored /\ [][Next]_vars

-----------------------------------------------------------------------------
(* The scorer on its own: every pair of words over a small alphabet, and   *)
(* the words of the game.                                                  *)

ScoreLetters == {"A", "E", "T"}

ScoreWords ==
    [1..WordLen -> ScoreLetters]
    \cup { ANSWERS[r] : r \in 1..N }
    \cup { ListedWord, OtherWord }

InitScore ==
    /\ scored \in [guess : ScoreWords, answer : ScoreWords, row : {<<>>}]
    /\ strict = FALSE
    /\ event = NoEvent
    /\ round_idx = init_state.round_idx
    /\ guesses = init_state.guesses
    /\ statuses = init_state.statuses
    /\ round_solved = init_state.round_solved
    /\ show_note = init_state.show_note
    /\ final_choice = init_state.final_choice
    /\ win_pulse = init_state.win_pulse
    /\ input_key = init_state.input_key
    /\ screen = init_state.screen
    /\ error = init_state.error

ApplyScore ==
    /\ scored.row = <<>>
    /\ scored' = [scored EXCEPT !.row = score_guess(scored.guess, scored.answer)]
    /\ UNCHANGED <<round_idx, guesses, statuses, round_solved, show_note,
                   final_choice, win_pulse, input_key, screen, error, strict,
                   event>>

NextScore == ApplyScore

SpecScore == InitScore /\ [][NextScore]_vars

-----------------------------------------------------------------------------
(* The validator through the submit handler: texts of up to 6 characters   *)
(* handed to the first submission of a new session, as a test would (the   *)
(* 5-character limit of the text input is enforced by the browser only).   *)

RawChars == {"a", "B", "3", " "}

MaxRawLen == 6

RawTexts ==
    UNION { [1..n -> RawChars] : n \in 0..MaxRawLen }
    \cup { <<"A","B">>, <<"A","B","C","D","E","F">>, <<"A","B","3","D","E">>,
           <<"f","l","i","r","t">>, <<"F","L","I","R","T">>,
           <<" ","t","e","a","r","s","\n">> }

SubmitRaw ==
    /\ event.click = "load"
    /\ \E raw \in RawTexts :
           Become(script(Session, "submit", raw), "submit", raw)

NextValid ==
    \/ Load
    \/ SubmitRaw

SpecValid == Init /\ [][NextValid]_vars

-----------------------------------------------------------------------------
(* A player who takes over at any point of free play and from then on, on  *)
(* every screen, submits the current round's answer, takes Try again when  *)
(* it is offered and Next round when it is offered.  The player's passes   *)
(* are recorded in event.click; they need no cap on input_key, since the   *)
(* player's run is finite.                                                 *)

PlayerClicks == {"takeover", "player_submit", "player_next", "player_retry"}

Player == event.click \in PlayerClicks

TakeOver ==
    /\ ~Player
    /\ screen # "none"
    /\ event' = [click |-> "takeover", text |-> <<>>]
    /\ UNCHANGED <<round_idx, guesses, statuses, round_solved, show_note,
                   final_choice, win_pulse, input_key, screen, error, strict,
                   scored>>

PlayerSubmit ==
    /\ Player
    /\ screen = "input"
    /\ Become(script(Session, "submit", lower(ANSWERS[round_idx + 1])),
              "player_submit", lower(ANSWERS[round_idx + 1]))

PlayerNextRound ==
    /\ Player
    /\ screen = "solved"
    /\ Become(script(Session, "next", <<>>), "player_next", <<>>)

PlayerTryAgain ==
    /\ Player
    /\ screen = "failed"
    /\ Become(script(Session, "retry", <<>>), "player_retry", <<>>)

PlayerStep ==
    \/ PlayerSubmit
    \/ PlayerNextRound
    \/ PlayerTryAgain

FreePlay ==
    /\ ~Player
    /\ Next

NextPlayer ==
    \/ FreePlay
    \/ TakeOver
    \/ PlayerStep

\* ENABLED <<PlayerSubmit>>_vars as a state predicate: the input is on the
\* screen and a submission would change something.  Only the repeat of a
\* refused submission changes nothing.
PlayerSubmitEnabled ==
    /\ Player
    /\ screen = "input"
    /\ ~(event.click = "player_submit" /\ error # "")

\* WF_vars(PlayerSubmit), with ENABLED written out as PlayerSubmitEnabled.
PlayerSubmitFair ==
    []<>(~PlayerSubmitEnabled) \/ []<><<PlayerSubmit>>_vars

\* Every pass runs to completion and the player acts whenever a control of
\* theirs is on the screen.
SpecPlayer ==
    /\ Init
    /\ [][NextPlayer]_vars
    /\ WF_vars(PlayerNextRound)
    /\ WF_vars(PlayerTryAgain)
    /\ PlayerSubmitFair

-----------------------------------------------------------------------------
(* Properties *)

Rounds == 1..N

Cur == round_idx + 1

RoundDataUnchanged ==
    /\ guesses' = guesses
    /\ statuses' = statuses
    /\ round_solved' = round_solved

\* C1: every round holds at most 6 guesses, and a submission made while the
\* current round holds 6 guesses appends nothing.
C1_AtMostSixGuesses ==
    /\ [](\A r \in Rounds : Len(guesses[r]) <= 6)
    /\ [][(event'.click = "submit" /\ round_idx < N /\ Len(guesses[Cur]) = 6)
            => (guesses' = guesses /\ statuses' = statuses)]_vars

\* A seventh submission was made and found the round full.
C1_Witness ==
    /\ event.click = "submit"
    /\ screen = "failed"
    /\ Len(guesses[Cur]) = 6

\* C2: a solved round keeps its guesses, statuses and solved flag under every
\* action but the reset; a submission of the answer to an open round appends
\* it and sets the solved flag.
C2_SolvedRoundFrozen ==
    [][/\ \A r \in Rounds :
            (round_solved[r] /\ event'.click # "reset")
                => /\ guesses'[r] = guesses[r]
                   /\ statuses'[r] = statuses[r]
                   /\ round_solved'[r]
       /\ (/\ event'.click = "submit"
           /\ round_idx < N
           /\ ~round_solved[Cur]
           /\ Len(guesses[Cur]) < 6
           /\ upper(strip(event'.text)) = ANSWERS[Cur])
            => /\ round_solved'[Cur]
               /\ guesses'[Cur] = Append(guesses[Cur], ANSWERS[Cur])]_vars

\* Round 1 was solved, then round 2 was exhausted and retried.
C2_Witness ==
    /\ round_idx = 1
    /\ round_solved[1]
    /\ event.click = "retry"
    /\ guesses[1] # <<>>

\* C3: a round is marked solved only if its guess list holds its answer.
C3_SolvedOnlyWithAnswer ==
    \A r \in Rounds :
        round_solved[r] => \E i \in 1..Len(guesses[r]) : guesses[r][i] = ANSWERS[r]

\* The second round was solved with its sixth guess.
C3_Witness ==
    /\ round_solved[2]
    /\ Len(guesses[2]) = 6
    /\ guesses[2][6] = ANSWERS[2]

\* The text is refused: not 5 letters once normalized, or unlisted in strict mode.
InvalidText(text) ==
    LET n == upper(strip(text))
    IN  \/ Len(n) # 5
        \/ \E i \in 1..Len(n) : n[i] \notin AZ
        \/ strict /\ n \notin VALID_GUESSES

\* C4: the submission of an invalid guess leaves the round index, every
\* round's guesses, statuses and solved flag, and the final choice unchanged.
C4_InvalidGuessNoChange ==
    [][(event'.click = "submit" /\ InvalidText(event'.text))
        => /\ round_idx' = round_idx
           /\ RoundDataUnchanged
           /\ final_choice' = final_choice]_vars

\* An unlisted word was refused in strict mode with one guess left.
C4_Witness ==
    /\ event.click = "submit"
    /\ error = "Not in the word list."
    /\ round_idx < N
    /\ Len(guesses[Cur]) = 5

Marked(c) ==
    { i \in 1..WordLen :
        upper(scored.guess)[i] = c /\ scored.row[i] \in {"correct", "present"} }

Occurrences(c, w) == { i \in 1..Len(w) : upper(w)[i] = c }

\* C5: for every letter, the positions of the guess holding it that are
\* marked correct or present are no more than its occurrences in the answer.
C5_MarksWithinAnswerCount ==
    scored.row # <<>> =>
        \A c \in AZ :
            Cardinality(Marked(c)) <= Cardinality(Occurrences(c, scored.answer))

\* A guess with more of a letter than the answer, marked exactly as many
\* times as the answer holds it, one of them present.
C5_Witness ==
    /\ scored.row # <<>>
    /\ \E c \in AZ :
        /\ Cardinality(Occurrences(c, scored.guess))
              > Cardinality(Occurrences(c, scored.answer))
        /\ Cardinality(Marked(c)) = Cardinality(Occurrences(c, scored.answer))
        /\ \E i \in Marked(c) : scored.row[i] = "present"

\* C6: the round index never decreases in a step other than the reset.
C6_RoundIndexMonotone ==
    [][event'.click # "reset" => round_idx' >= round_idx]_vars

\* Try again was taken in the third round.
C6_Witness ==
    /\ event.click = "retry"
    /\ round_idx = 2

\* C7: Next round is offered only on a solved current round; taking it adds
\* exactly one to the round index, leaves every round's data unchanged, and
\* from the last round leads to the final question.
C7_AdvanceEffect ==
    /\ [](ENABLED ClickNextRound => (round_idx < N /\ round_solved[Cur]))
    /\ [][event'.click = "next"
            => /\ round_idx < N
               /\ round_solved[Cur]
               /\ round_idx' = round_idx + 1
               /\ RoundDataUnchanged
               /\ (round_idx + 1 = N => screen' = "final")]_vars

\* Next round was taken from the last round.
C7_Witness ==
    /\ event.click = "next"
    /\ round_idx = N
    /\ screen = "final"

\* C8: once a pass has run on a state with every round solved, the round
\* index is N and the final question is on the screen.
C8_AllSolvedShowsFinal ==
    (screen # "none" /\ \A r \in Rounds : round_solved[r])
        => (round_idx = N /\ screen = "final")

\* The first pass of a session stored with every round solved and no guesses.
C8_Witness ==
    /\ event.click = "load"
    /\ \A r \in Rounds : round_solved[r] /\ guesses[r] = <<>>
    /\ screen = "final"

FreshSession ==
    /\ round_idx = 0
    /\ \A r \in Rounds : guesses[r] = <<>> /\ statuses[r] = <<>> /\ ~round_solved[r]
    /\ final_choice = "None"
    /\ show_note = FALSE
    /\ win_pulse = FALSE
    /\ input_key = 0

\* C9: the reset is enabled whenever a screen is shown, and the state after it
\* is the initial session state.
C9_ResetRestoresInitial ==
    /\ [](screen # "none" => ENABLED ClickReset)
    /\ [][event'.click = "reset" => (FreshSession' /\ screen' = "input")]_vars

\* The reset was taken.
C9_Witness ==
    /\ event.click = "reset"
    /\ FreshSession
    /\ screen = "input"

\* C10: at the final question only the reset changes the round index or any
\* round's data; the final choice changes only from unset to accepted, by
\* YES, or back to unset by the reset; the decline control changes nothing.
C10_FinalIsTerminal ==
    [][/\ (round_idx = N /\ event'.click # "reset")
            => (round_idx' = N /\ RoundDataUnchanged)
       /\ final_choice' # final_choice
            => \/ event'.click = "reset" /\ final_choice' = "None"
               \/ /\ event'.click = "yes"
                  /\ round_idx = N
                  /\ final_choice = "None"
                  /\ final_choice' = "YES"
       /\ event'.click = "no"
            => UNCHANGED <<round_idx, guesses, statuses, round_solved,
                           show_note, final_choice, win_pulse, input_key,
                           screen, error>>]_vars

\* The decline control was pressed after the choice was accepted.
C10_Witness ==
    /\ event.click = "no"
    /\ final_choice = "YES"
    /\ round_idx = N


C11_TryAgainEffect ==
    /\ [](screen = "failed"
            => (round_idx < N /\ Len(guesses[Cur]) = 6 /\ ~round_solved[Cur]))
    /\ [][event'.click = "retry"
            => /\ round_idx' = round_idx
               /\ guesses'[Cur] = <<>>
               /\ statuses'[Cur] = <<>>
               /\ ~round_solved'[Cur]
               /\ \A r \in Rounds \ {Cur} :
                    /\ guesses'[r] = guesses[r]
                    /\ statuses'[r] = statuses[r]
                    /\ round_solved'[r] = round_solved[r]
               /\ final_choice' = final_choice]_vars


WellFormed(n) == Len(n) = 5 /\ \A i \in 1..Len(n) : n[i] \in AZ

Rejected(raw) == ~is_valid_guess(raw).ok

\* C12: with strict validation off a text is accepted iff, trimmed and
\* upper-cased, it is exactly 5 letters A..Z; "AB", "ABCDEF" and "AB3DE" are
\* refused, "flirt" is accepted, and the guess stored is the normalized text.
C12_ValidatorNonStrict ==
    ~strict =>
        /\ Rejected(<<"A","B">>)
        /\ Rejected(<<"A","B","C","D","E","F">>)
        /\ Rejected(<<"A","B","3","D","E">>)
        /\ ~Rejected(<<"f","l","i","r","t">>)
        /\ event.click = "submit" =>
             LET n == upper(strip(event.text))
             IN  IF WellFormed(n)
                 THEN error = "" /\ guesses[1] = <<n>>
                 ELSE error # "" /\ guesses[1] = <<>>

\* "flirt" was submitted and stored as "FLIRT".
C12_Witness ==
    /\ ~strict
    /\ event = [click |-> "submit", text |-> <<"f","l","i","r","t">>]
    /\ guesses[1] = << <<"F","L","I","R","T">> >>


\* C13: score_guess("TEARS", "HEART") is present, correct, correct, correct,
\* absent.
C13_TearsAgainstHeart ==
    (/\ scored.guess = <<"T","E","A","R","S">>
     /\ scored.answer = <<"H","E","A","R","T">>
     /\ scored.row # <<>>)
        => scored.row = <<"present", "correct", "correct", "correct", "absent">>

\* TEARS was scored against HEART.
C13_Witness ==
    /\ scored.guess = <<"T","E","A","R","S">>
    /\ scored.answer = <<"H","E","A","R","T">>
    /\ scored.row = <<"present", "correct", "correct", "correct", "absent">>

\* Positions of the guess that hold c where the answer holds something else.
Loose(c) ==
    { i \in 1..WordLen :
        upper(scored.guess)[i] = c /\ upper(scored.answer)[i] # c }

\* Positions of the answer that hold c where the guess holds something else.
Unmatched(c) ==
    { j \in 1..WordLen :
        upper(scored.answer)[j] = c /\ upper(scored.guess)[j] # c }

\* C15: a position is correct iff guess and answer agree there; of the other
\* positions holding a letter c, the leftmost min(their number, number of
\* answer positions holding c that the guess does not match) are present and
\* the rest absent.
C15_ScoreCharacterized ==
    scored.row # <<>> =>
        /\ Len(scored.row) = 5
        /\ \A i \in 1..WordLen :
             scored.row[i] = "correct"
                <=> upper(scored.guess)[i] = upper(scored.answer)[i]
        /\ \A c \in AZ :
             LET k == Min(Cardinality(Loose(c)), Cardinality(Unmatched(c)))
             IN  \A i \in Loose(c) :
                    LET rank == Cardinality({ j \in Loose(c) : j < i })
                    IN  scored.row[i] = IF rank < k THEN "present" ELSE "absent"

\* A letter held three times off its place in the guess, once unmatched in
\* the answer: the first is present, a later one absent.
C15_Witness ==
    /\ scored.row # <<>>
    /\ \E c \in AZ :
        /\ Cardinality(Loose(c)) = 3
        /\ Cardinality(Unmatched(c)) = 1
        /\ \E i, j \in Loose(c) :
             i < j /\ scored.row[i] = "present" /\ scored.row[j] = "absent"


\* C14: every round before the current one is solved, so the final question
\* is shown, and the final choice accepted, only with every round solved.
C14_NoRoundSkipped ==
    /\ \A r \in Rounds : r <= round_idx => round_solved[r]
    /\ round_idx = N => \A r \in Rounds : round_solved[r]
    /\ final_choice = "YES" => \A r \in Rounds : round_solved[r]

\* The final choice was accepted.
C14_Witness ==
    /\ round_idx = N
    /\ final_choice = "YES"
    /\ \A r \in Rounds : round_solved[r]

\* C18: in every round the status rows parallel the guesses, each row the
\* score of its guess against the round's answer; rounds after the current
\* one are empty.
C18_StatusesParallel ==
    \A r \in Rounds :
        /\ Len(statuses[r]) = Len(guesses[r])
        /\ \A i \in 1..Len(guesses[r]) :
             statuses[r][i] = score_guess(guesses[r][i], ANSWERS[r])
        /\ r > Cur => (guesses[r] = <<>> /\ statuses[r] = <<>>)

\* The second round was retried and then holds a wrong guess and its row.
C18_Witness ==
    /\ round_idx = 1
    /\ input_key >= 9
    /\ Len(guesses[2]) = 2
    /\ Len(statuses[2]) = 2
    /\ guesses[2][1] # ANSWERS[2]
    /\ statuses[2][1] = score_guess(guesses[2][1], ANSWERS[2])


\* C16 (as claimed): the step that solves a round, the last one included,
\* leaves the round index unchanged and rests on that round's solved screen,
\* with its note shown and Next round offered.
C16_SolvedScreenAfterEveryRound ==
    [][\A r \in Rounds :
        (~round_solved[r] /\ round_solved'[r])
            => /\ round_idx' = r - 1
               /\ screen' = "solved"
               /\ note_shown' = INTER_ROUND_NOTES[r]]_vars

\* C17 (as claimed): the win pulse is false whenever the app waits for the
\* next user action.
C17_WinPulseCleared ==
    win_pulse = FALSE


\* C19: some action is always enabled, the reset whenever a screen is shown,
\* and once the player has taken over the final question is reached.
C19_NeverStuck ==
    /\ [](ENABLED Next)
    /\ [](screen # "none" => ENABLED ClickReset)
    /\ [](Player => <>(round_idx = N /\ screen = "final"))

\* The player took over and reached the final question by a last answer.
C19_Witness ==
    /\ event.click = "player_submit"
    /\ round_idx = N
    /\ screen = "final"

====
